---- MODULE Spec2Model ----
(***************************************************************************)
(* Model of the Toolshed artifact retrieval and import pipeline of the     *)
(* triage portal:                                                          *)
(*   - src/src/triage/management/commands/import_toolshed.py  (Command)    *)
(*   - src/src/triage/util/azure_blob_storage.py  (the two accessors)      *)
(*                                                                         *)
(* Python strings are sequences of one-character strings, so that          *)
(* startswith, endswith, slicing and the regular expressions of the code   *)
(* are computed on characters.  A Python value that may be None is a       *)
(* sequence of length 0 (None) or 1 (the value).                           *)
(***************************************************************************)
EXTENDS Integers, Sequences, FiniteSets, TLC

(***************************************************************************)
(* Bounds of the model.                                                    *)
(***************************************************************************)
MaxBlobs == 3
MaxMaximum == 2

(***************************************************************************)
(* String primitives (str.startswith, str.endswith, s[n:], s.split("/")).  *)
(***************************************************************************)
StartsWith(s, p) == Len(p) <= Len(s) /\ SubSeq(s, 1, Len(p)) = p

EndsWith(s, x) == Len(x) <= Len(s) /\ SubSeq(s, Len(s) - Len(x) + 1, Len(s)) = x

SliceFrom(s, n) == SubSeq(s, n + 1, Len(s))

Slash == <<"/">>

RECURSIVE Split(_)
Split(s) ==
    IF \A i \in 1..Len(s) : s[i] # "/"
    THEN <<s>>
    ELSE LET k == CHOOSE i \in 1..Len(s) : s[i] = "/" /\ \A j \in 1..(i - 1) : s[j] # "/"
         IN  <<SubSeq(s, 1, k - 1)>> \o Split(SubSeq(s, k + 1, Len(s)))

(***************************************************************************)
(* Literals of the code.                                                   *)
(***************************************************************************)
SarifExt == <<".", "s", "a", "r", "i", "f">>
TgzExt == <<".", "t", "g", "z">>
ToolMarker == <<"t", "o", "o", "l", "-">>
ReferenceBinaries ==
    <<"r", "e", "f", "e", "r", "e", "n", "c", "e", "-", "b", "i", "n", "a", "r", "i", "e", "s">>
NamespaceWord == <<"n", "a", "m", "e", "s", "p", "a", "c", "e">>
NoneText == <<"N", "o", "n", "e">>

(***************************************************************************)
(* Words the object keys of the model are built from.                      *)
(***************************************************************************)
W_npm == <<"n", "p", "m">>
W_leftpad == <<"l", "e", "f", "t", "-", "p", "a", "d">>
W_130 == <<"1", ".", "3", ".", "0">>
W_beta == <<"-", "b", "e", "t", "a">>
W_maven == <<"m", "a", "v", "e", "n">>
W_org == <<"o", "r", "g">>
W_lib == <<"l", "i", "b">>
W_20 == <<"2", ".", "0">>
W_codeql == <<"c", "o", "d", "e", "q", "l">>
W_pkg == <<"p", "k", "g">>
W_bad == <<"b", "a", "d">>
W_unknownformat == <<"u", "n", "k", "n", "o", "w", "n", "f", "o", "r", "m", "a", "t">>
W_readme == <<"r", "e", "a", "d", "m", "e">>
W_x == <<"x">>
W_y == <<"y">>

K_codeql == W_npm \o Slash \o W_leftpad \o Slash \o W_130 \o Slash \o ToolMarker \o W_codeql \o SarifExt
K_pkg == W_npm \o Slash \o W_leftpad \o Slash \o W_130 \o Slash \o ReferenceBinaries \o Slash \o W_pkg \o TgzExt
K_bad == W_npm \o Slash \o W_leftpad \o Slash \o W_130 \o Slash \o ReferenceBinaries \o Slash \o W_bad \o TgzExt
K_readme == W_unknownformat \o Slash \o W_readme \o SarifExt
K_beta == W_npm \o Slash \o W_leftpad \o Slash \o W_130 \o W_beta \o Slash \o ToolMarker \o W_x \o SarifExt
K_maven == W_maven \o Slash \o W_org \o Slash \o W_lib \o Slash \o W_20 \o Slash \o ToolMarker \o W_y \o SarifExt

\* The object keys a container of the model may hold.
KeyPool == {K_codeql, K_pkg, K_readme, K_beta, K_maven}

\* Containers: at most MaxBlobs distinct keys, in the provider's order.
Containers ==
    {s \in UNION {[1..k -> KeyPool] : k \in 0..MaxBlobs} :
        \A i, j \in 1..Len(s) : i # j => s[i] # s[j]}

(***************************************************************************)
(* PackageURL: a record of four strings; the empty string stands for None  *)
(* (the library normalises an empty namespace or version to None).         *)
(***************************************************************************)
PackageURL(type, namespace, name, version) ==
    [type |-> type, namespace |-> namespace, name |-> name, version |-> version]

\* An f-string field: None is written "None".
Fmt(x) == IF x = <<>> THEN NoneText ELSE x

P_leftpad == PackageURL(W_npm, <<>>, W_leftpad, W_130)
P_lib == PackageURL(W_maven, W_org, W_lib, W_20)

\* import_toolshed.py 44-47: the listing prefix of a parsed --package.
HandlePrefix(package_url) ==
    IF package_url.namespace # <<>>
    THEN Fmt(package_url.type) \o Slash \o Fmt(package_url.namespace) \o Slash
             \o Fmt(package_url.name) \o Slash \o Fmt(package_url.version)
    ELSE Fmt(package_url.type) \o Slash \o Fmt(package_url.name) \o Slash
             \o Fmt(package_url.version)

(***************************************************************************)
(* filename_to_package_url (import_toolshed.py 76-98).                     *)
(***************************************************************************)
\* ^([^/]+)/([^/]+)/([^/]+)/([^/]+)/.*$  : four non-empty segments and a slash.
Match4(filename) ==
    LET segs == Split(filename)
    IN  IF Len(segs) >= 5 /\ \A i \in 1..4 : segs[i] # <<>>
        THEN <<[type |-> segs[1], namespace |-> segs[2], name |-> segs[3], version |-> segs[4]]>>
        ELSE <<>>

\* ^([^/]+)/([^/]+)/([^/]+)/.*$  : three non-empty segments and a slash.
Match3(filename) ==
    LET segs == Split(filename)
    IN  IF Len(segs) >= 4 /\ \A i \in 1..3 : segs[i] # <<>>
        THEN <<[type |-> segs[1], name |-> segs[2], version |-> segs[3]]>>
        ELSE <<>>

\* match.groups(): the captured texts, as a set.
Groups(m) == {m[f] : f \in DOMAIN m}

\* The namespace argument, line 92; <<FALSE, _>> when match.group raises.
NamespaceArg(m) ==
    IF NamespaceWord \in Groups(m)
    THEN IF "namespace" \in DOMAIN m THEN <<TRUE, m.namespace>> ELSE <<FALSE, <<>>>>
    ELSE <<TRUE, <<>>>>

filename_to_package_url(filename) ==
    LET m4 == Match4(filename)
        match == IF m4 # <<>> THEN m4 ELSE Match3(filename)
    IN  IF match = <<>>
        THEN <<>>
        ELSE LET m == match[1]
                 ns == NamespaceArg(m)
             IN  IF ~ns[1] \/ m.type = <<>> \/ m.name = <<>>
                 THEN <<>>
                 ELSE <<PackageURL(m.type, ns[2], m.name, m.version)>>

(***************************************************************************)
(* State of one run of the import command.                                 *)
(***************************************************************************)
VARIABLES
    store,            \* the keys of the container, in provider order
    options,          \* the parsed command line
    url_secret,       \* TOOLSHED_BLOB_STORAGE_URL_SECRET is set
    container_secret, \* TOOLSHED_BLOB_STORAGE_CONTAINER_SECRET is set
    pc,               \* position of handle()
    err,              \* the exception that left handle(), "" when none
    blobs,            \* the listing being iterated
    idx,              \* position of the for loop in blobs
    num_imported,     \* line 55
    package_url,      \* line 43/50/68: None or a PackageURL
    listed,           \* list_blobs: "no" not called, "ok" answered, "raised"
    trace             \* what was done with each object, in order

(***************************************************************************)
(* State of the blob catalog (azure_blob_storage.py): the shared cache,    *)
(* the clock, and the calls under way.                                     *)
(***************************************************************************)
VARIABLES
    callers,      \* the callers that make calls
    name_prefix,  \* self.name_prefix of the accessor
    now,          \* the clock, in seconds
    nticks,       \* steps the clock has taken
    cache,        \* django cache: cache key -> None or [value, expires]
    cpc,          \* position of each caller
    cop,          \* the method each caller called
    data,         \* the blob list under way: None or a list
    ci,           \* loop position of get_package_files
    results,      \* results of get_package_files / get_tool_files
    ret,          \* the value returned: None or a list
    cerr,         \* the exception raised to the caller, "" when none
    ncalls,       \* calls made so far
    last_set,     \* history: cache key -> time and value of the last cache.set
    hit_at_call,  \* history: the call began within an hour of the last cache.set
    nlist,        \* history: provider listings made by the current call
    list_failed,  \* history: the provider listing of the current call failed
    failed_before, \* history: the caller's previous call had a failed listing
    opened,       \* history: the objects the current call asked the bytes of
    fresh_read    \* history: the caller read the cache and no cache.set came after

(***************************************************************************)
(* State of one use of the coordinate resolver: a coordinate and a path    *)
(* built from it, and what the code makes of them.                         *)
(***************************************************************************)
VARIABLES
    r_coord,     \* the PackageURL given
    r_rest,      \* what follows the prefix and a slash in the object path
    r_pc,        \* "off", "start", "inferred", "constructed" or "raised"
    r_inferred,  \* result of filename_to_package_url: None or a PackageURL
    r_prefix,    \* name_prefix of the accessor constructed: None or a string
    r_err        \* the exception raised, "" when none

resVars == <<r_coord, r_rest, r_pc, r_inferred, r_prefix, r_err>>

runVars == <<options, url_secret, container_secret, pc, err, blobs, idx,
             num_imported, package_url, listed, trace>>

catVars == <<callers, name_prefix, now, nticks, cache, cpc, cop, data, ci, results,
             ret, cerr, ncalls, last_set, hit_at_call, nlist, list_failed, failed_before,
             opened, fresh_read>>

vars == <<store, runVars, catVars, resVars>>

\* --package values: not given, a malformed string, or a string that parses.
PackageOpts ==
    {<<>>, <<[valid |-> FALSE, purl |-> P_leftpad]>>,
     <<[valid |-> TRUE, purl |-> P_leftpad]>>, <<[valid |-> TRUE, purl |-> P_lib]>>}

\* --maximum values: None (not given on the command line) or an int.
MaximumOpts == {<<>>} \cup {<<m>> : m \in (-1)..MaxMaximum}

OptionSets ==
    {o \in [package : PackageOpts, import_all : BOOLEAN,
            has_maximum : BOOLEAN, maximum : MaximumOpts] :
        ~o.has_maximum => o.maximum = <<>>}

\* options.get("maximum", 0)
OptionsGetMaximum(o) == IF o.has_maximum THEN o.maximum ELSE <<0>>

InitRun ==
    /\ options \in OptionSets
    /\ url_secret \in BOOLEAN
    /\ container_secret \in BOOLEAN
    /\ store \in Containers
    /\ pc = "start"
    /\ err = ""
    /\ blobs = <<>>
    /\ idx = 1
    /\ num_imported = 0
    /\ package_url = <<>>
    /\ listed = "no"
    /\ trace = <<>>

Raise(e) ==
    /\ pc' = "error"
    /\ err' = e

\* lines 34-36
ModeSelected(o) == ~(o.package = <<>> /\ ~o.import_all)

CheckMode ==
    /\ pc = "start"
    /\ IF ModeSelected(options)
       THEN pc' = "init" /\ err' = err
       ELSE Raise("ValueError")
    /\ UNCHANGED <<options, url_secret, container_secret, store, blobs, idx,
                   num_imported, package_url, listed, trace, catVars, resVars>>

\* A check that accepts a configuration with one of the two settings set.
SettingsPresent_Either == url_secret \/ container_secret

\* lines 100-102
SettingsPresent == ~(~url_secret \/ ~container_secret)

\* lines 38-39, 100-108
initialize_toolshed ==
    /\ pc = "init"
    /\ IF SettingsPresent
       THEN pc' = "user" /\ err' = err
       ELSE Raise("ValueError")
    /\ UNCHANGED <<options, url_secret, container_secret, store, blobs, idx,
                   num_imported, package_url, listed, trace, catVars, resVars>>

\* line 40: the acting user is read from the database, or the read raises.
GetUser ==
    /\ pc = "user"
    /\ \E found \in BOOLEAN :
          IF found THEN pc' = "resolve" /\ err' = err ELSE Raise("DoesNotExist")
    /\ UNCHANGED <<options, url_secret, container_secret, store, blobs, idx,
                   num_imported, package_url, listed, trace, catVars, resVars>>

\* container.list_blobs(name_starts_with=prefix)
list_blobs(prefix) == SelectSeq(store, LAMBDA k : StartsWith(k, prefix))

\* lines 42-53 and the first step of the iteration at line 56: the listing is
\* requested from the provider, which answers or raises a transport error.
\* The else branch of line 52 is dead code after line 35.
ListBlobs ==
    /\ pc = "resolve"
    /\ IF options.package # <<>>
       THEN IF ~options.package[1].valid
            THEN /\ Raise("ValueError")
                 /\ UNCHANGED <<blobs, package_url, listed>>
            ELSE /\ package_url' = <<options.package[1].purl>>
                 /\ \E transport_ok \in BOOLEAN :
                       IF transport_ok
                       THEN /\ blobs' = list_blobs(HandlePrefix(options.package[1].purl))
                            /\ listed' = "ok"
                            /\ pc' = "loop" /\ err' = err
                       ELSE /\ blobs' = <<>>
                            /\ listed' = "raised"
                            /\ Raise("HttpResponseError")
       ELSE /\ package_url' = <<>>
            /\ \E transport_ok \in BOOLEAN :
                  IF transport_ok
                  THEN /\ blobs' = store
                       /\ listed' = "ok"
                       /\ pc' = "loop" /\ err' = err
                  ELSE /\ blobs' = <<>>
                       /\ listed' = "raised"
                       /\ Raise("HttpResponseError")
    /\ UNCHANGED <<options, url_secret, container_secret, store, idx, num_imported, trace,
                   catVars, resVars>>

\* A cutoff that compares one object too late.
MaximumReached_Late(n, maximum) == n > maximum + 1 /\ maximum > 0

\* line 59: num_imported > options.get("maximum", 0) > 0, for an int maximum
MaximumReached(n, maximum) == n > maximum /\ maximum > 0

\* lines 69-71: the download, the JSON decoding or the importer may raise.
ImportOutcomes == {"imported", "download_failed", "json_failed", "importer_failed"}

\* An except clause that lets the exception of a failed object through.
AfterObject_Reraise(status) ==
    IF status = "imported"
    THEN idx' = idx + 1 /\ pc' = pc /\ err' = err
    ELSE idx' = idx /\ Raise("Exception")

\* lines 72-74: the except clause logs and goes on to the next object.
AfterObject(status) ==
    /\ idx' = idx + 1
    /\ pc' = pc
    /\ err' = err

\* lines 56-74: one iteration of the for loop
ForBlob ==
    /\ pc = "loop"
    /\ idx <= Len(blobs)
    /\ num_imported' = num_imported + 1
    /\ LET blob == blobs[idx]
           maximum == OptionsGetMaximum(options)
       IN  IF maximum = <<>>
           THEN /\ Raise("TypeError")
                /\ UNCHANGED <<idx, package_url, trace>>
           ELSE IF MaximumReached(num_imported', maximum[1])
           THEN /\ pc' = "done"
                /\ UNCHANGED <<err, idx, package_url, trace>>
           ELSE IF ~EndsWith(blob, SarifExt)
           THEN /\ trace' = Append(trace, [i |-> idx, status |-> "skipped", coord |-> <<>>])
                /\ idx' = idx + 1
                /\ UNCHANGED <<pc, err, package_url>>
           ELSE /\ package_url' =
                      IF package_url = <<>> THEN filename_to_package_url(blob) ELSE package_url
                /\ \E status \in ImportOutcomes :
                      /\ trace' = Append(trace, [i |-> idx, status |-> status,
                                                 coord |-> package_url'])
                      /\ AfterObject(status)
    /\ UNCHANGED <<options, url_secret, container_secret, store, blobs, listed, catVars, resVars>>

\* line 56: the listing is exhausted
LoopEnd ==
    /\ pc = "loop"
    /\ idx > Len(blobs)
    /\ pc' = "done"
    /\ UNCHANGED <<options, url_secret, container_secret, store, err, blobs, idx,
                   num_imported, package_url, listed, trace, catVars, resVars>>

(***************************************************************************)
(* The blob catalog: AzureBlobStorageAccessor and                          *)
(* ToolshedBlobStorageAccessor.  Every statement that reads or writes the  *)
(* shared cache, the container or the clock is a step of its own.          *)
(***************************************************************************)
MaxCalls == 3
MaxTicks == 2
OneHour == 3600

Procs == {1, 2}

W_tools == <<"t", "o", "o", "l", "s", "/">>
W_package == <<"p", "a", "c", "k", "a", "g", "e", "/">>
W_atxt == <<"a", ".", "t", "x", "t">>
W_dirbtxt == <<"d", "i", "r", "/", "b", ".", "t", "x", "t">>
Colon == <<":">>

\* The keys a container read through the catalog may hold.
CatalogPool == {K_codeql, K_pkg, K_bad, K_beta}

CatalogContainers ==
    {s \in UNION {[1..k -> CatalogPool] : k \in 0..MaxBlobs} :
        \A i, j \in 1..Len(s) : i # j => s[i] # s[j]}

\* The keys of the containers the classifier is run over.
K_tooltgz == W_npm \o Slash \o W_leftpad \o Slash \o W_130 \o Slash
                 \o ToolMarker \o <<"z">> \o TgzExt

ClassifierPool == {K_codeql, K_pkg, K_tooltgz, K_beta}

ClassifierContainers ==
    {s \in UNION {[1..k -> ClassifierPool] : k \in 0..MaxBlobs} :
        \A i, j \in 1..Len(s) : i # j => s[i] # s[j]}

\* The keys of the container two racing callers list.
RacePool == {K_codeql, K_pkg}

RaceContainers ==
    {s \in UNION {[1..k -> RacePool] : k \in 0..MaxBlobs} :
        \A i, j \in 1..Len(s) : i # j => s[i] # s[j]}

ClassifierOps == {"get_tool_files", "get_package_files"}

\* The bytes of an object as tarfile.open sees them: K_pkg is a gzipped tar
\* of two members, every other object is not an archive.
IsTar(key) == key = K_pkg

TarMembers(key) == IF key = K_pkg THEN <<W_atxt, W_dirbtxt>> ELSE <<>>

\* azure_blob_storage.py 73-80
get_toolshed_prefix(purl) ==
    IF purl.namespace # <<>>
    THEN Fmt(purl.type) \o Slash \o Fmt(purl.namespace) \o Slash
             \o Fmt(purl.name) \o Slash \o Fmt(purl.version)
    ELSE Fmt(purl.type) \o Slash \o Fmt(purl.name) \o Slash \o Fmt(purl.version)

CatalogPrefixes == {get_toolshed_prefix(P_leftpad), get_toolshed_prefix(P_lib)}

\* timeout=60*60, line 46
CacheTimeout == 60 * 60

\* The steps the clock may take between two statements.
TickSteps == {1, OneHour - 1}

CatalogFresh ==
    /\ now = 0
    /\ nticks = 0
    /\ cache = [p \in CatalogPrefixes |-> <<>>]
    /\ cpc = [c \in Procs |-> "idle"]
    /\ cop = [c \in Procs |-> "none"]
    /\ data = [c \in Procs |-> <<>>]
    /\ ci = [c \in Procs |-> 1]
    /\ results = [c \in Procs |-> <<>>]
    /\ ret = [c \in Procs |-> <<>>]
    /\ cerr = [c \in Procs |-> ""]
    /\ ncalls = 0
    /\ last_set = [p \in CatalogPrefixes |-> <<>>]
    /\ hit_at_call = [c \in Procs |-> FALSE]
    /\ nlist = [c \in Procs |-> 0]
    /\ list_failed = [c \in Procs |-> FALSE]
    /\ failed_before = [c \in Procs |-> FALSE]
    /\ opened = [c \in Procs |-> <<>>]
    /\ fresh_read = [c \in Procs |-> FALSE]

\* No import run is under way.
RunOff ==
    /\ options = [package |-> <<>>, import_all |-> FALSE, has_maximum |-> FALSE,
                  maximum |-> <<>>]
    /\ url_secret = TRUE
    /\ container_secret = TRUE
    /\ pc = "off"
    /\ err = ""
    /\ blobs = <<>>
    /\ idx = 1
    /\ num_imported = 0
    /\ package_url = <<>>
    /\ listed = "no"
    /\ trace = <<>>

\* A cache whose entries never expire.
CacheHasKey_NoExpiry(key) == cache[key] # <<>>

\* cache.has_key(cache_key): there is an entry and it has not expired
CacheHasKey(key) == cache[key] # <<>> /\ now < cache[key][1].expires

\* cache.get(cache_key): the value, or None
CacheGetValue(key) == IF CacheHasKey(key) THEN <<cache[key][1].value>> ELSE <<>>

\* line 44: the descriptor of one listed blob
Descriptor(name) ==
    [full_path |-> name, relative_path |-> SliceFrom(name, Len(name_prefix) + 1)]

RECURSIVE MapDescriptor(_)
MapDescriptor(names) ==
    IF names = <<>> THEN <<>>
    ELSE <<Descriptor(Head(names))>> \o MapDescriptor(Tail(names))

CallableOps == {"get_blob_list", "get_tool_files", "get_package_files"}

\* A call of one of the accessor's methods, up to and including the
\* cache.has_key of line 41.
Call(c, op) ==
    /\ c \in callers
    /\ cpc[c] \in {"idle", "done", "raised"}
    /\ ncalls < MaxCalls
    /\ ncalls' = ncalls + 1
    /\ cop' = [cop EXCEPT ![c] = op]
    /\ cpc' = [cpc EXCEPT ![c] = IF CacheHasKey(name_prefix) THEN "get" ELSE "list"]
    /\ data' = [data EXCEPT ![c] = <<>>]
    /\ ci' = [ci EXCEPT ![c] = 1]
    /\ results' = [results EXCEPT ![c] = <<>>]
    /\ ret' = [ret EXCEPT ![c] = <<>>]
    /\ cerr' = [cerr EXCEPT ![c] = ""]
    /\ hit_at_call' = [hit_at_call EXCEPT ![c] =
                          /\ last_set[name_prefix] # <<>>
                          /\ now < last_set[name_prefix][1].at + OneHour]
    /\ nlist' = [nlist EXCEPT ![c] = 0]
    /\ list_failed' = [list_failed EXCEPT ![c] = FALSE]
    /\ failed_before' = [failed_before EXCEPT ![c] = list_failed[c]]
    /\ opened' = [opened EXCEPT ![c] = <<>>]
    /\ fresh_read' = [fresh_read EXCEPT ![c] = FALSE]
    /\ UNCHANGED <<callers, name_prefix, now, nticks, cache, last_set, store, runVars, resVars>>

\* line 42: return cache.get(cache_key)
CacheGet(c) ==
    /\ cpc[c] = "get"
    /\ data' = [data EXCEPT ![c] = CacheGetValue(name_prefix)]
    /\ fresh_read' = [fresh_read EXCEPT ![c] = CacheHasKey(name_prefix)]
    /\ cpc' = [cpc EXCEPT ![c] = "return"]
    /\ UNCHANGED <<callers, name_prefix, now, nticks, cache, cop, ci, results, ret, cerr,
                   ncalls, last_set, hit_at_call, nlist, list_failed, failed_before,
                   store, runVars, resVars,
                   opened>>

\* An except clause that also caches the empty list it returns.
ListingFailed_Cached(c) ==
    /\ data' = [data EXCEPT ![c] = << <<>> >>]
    /\ cpc' = [cpc EXCEPT ![c] = "return"]
    /\ cache' = [cache EXCEPT ![name_prefix] =
                    <<[value |-> <<>>, expires |-> now + OneHour]>>]
    /\ UNCHANGED last_set

\* lines 48-50: the except clause after a failed provider listing
ListingFailed(c) ==
    /\ data' = [data EXCEPT ![c] = << <<>> >>]
    /\ cpc' = [cpc EXCEPT ![c] = "return"]
    /\ UNCHANGED <<cache, last_set>>

\* lines 44-45: the provider lists the blobs under the prefix, or fails
ProviderList(c) ==
    /\ cpc[c] = "list"
    /\ nlist' = [nlist EXCEPT ![c] = nlist[c] + 1]
    /\ \E listing_ok \in BOOLEAN :
          /\ list_failed' = [list_failed EXCEPT ![c] = ~listing_ok]
          /\ IF listing_ok
             THEN /\ data' = [data EXCEPT ![c] = <<MapDescriptor(list_blobs(name_prefix))>>]
                  /\ cpc' = [cpc EXCEPT ![c] = "set"]
                  /\ UNCHANGED <<cache, last_set>>
             ELSE ListingFailed(c)
    /\ UNCHANGED <<callers, name_prefix, now, nticks, cop, ci, results, ret, cerr,
                   ncalls, hit_at_call, failed_before, store, runVars, resVars,
                   opened,
                   fresh_read>>

\* A cache.set that appends to the entry it finds instead of replacing it.
CacheSet_Merge(c) ==
    /\ cpc[c] = "set"
    /\ cache' = [cache EXCEPT ![name_prefix] =
                    <<[value |-> (IF cache[name_prefix] = <<>> THEN <<>>
                                  ELSE cache[name_prefix][1].value) \o data[c][1],
                       expires |-> now + CacheTimeout]>>]
    /\ last_set' = [last_set EXCEPT ![name_prefix] = <<[at |-> now, value |-> data[c][1]]>>]
    /\ fresh_read' = [p \in Procs |-> FALSE]
    /\ cpc' = [cpc EXCEPT ![c] = "return"]
    /\ UNCHANGED <<callers, name_prefix, now, nticks, cop, data, ci, results, ret, cerr,
                   ncalls, hit_at_call, nlist, list_failed, failed_before, store, runVars, resVars,
                   opened>>

\* line 46: cache.set(cache_key, data, timeout=60*60)
CacheSet(c) ==
    /\ cpc[c] = "set"
    /\ cache' = [cache EXCEPT ![name_prefix] =
                    <<[value |-> data[c][1], expires |-> now + CacheTimeout]>>]
    /\ last_set' = [last_set EXCEPT ![name_prefix] = <<[at |-> now, value |-> data[c][1]]>>]
    /\ fresh_read' = [p \in Procs |-> FALSE]
    /\ cpc' = [cpc EXCEPT ![c] = "return"]
    /\ UNCHANGED <<callers, name_prefix, now, nticks, cop, data, ci, results, ret, cerr,
                   ncalls, hit_at_call, nlist, list_failed, failed_before, store, runVars, resVars,
                   opened>>

\* azure_blob_storage.py 82-90, given the blob list
RECURSIVE ToolFiles(_)
ToolFiles(list) ==
    IF list = <<>> THEN <<>>
    ELSE LET blob == Head(list)
         IN  (IF StartsWith(blob.relative_path, ToolMarker)
              THEN <<[full_path |-> blob.full_path,
                      relative_path |-> W_tools \o blob.relative_path]>>
              ELSE <<>>) \o ToolFiles(Tail(list))

\* lines 42, 47, 50: get_blob_list returns; get_tool_files (82-90) and
\* get_package_files (92-94) go on with the list, and iterating None raises.
Return(c) ==
    /\ cpc[c] = "return"
    /\ IF cop[c] = "get_blob_list"
       THEN /\ ret' = [ret EXCEPT ![c] = data[c]]
            /\ cpc' = [cpc EXCEPT ![c] = "done"]
            /\ UNCHANGED <<results, cerr>>
       ELSE IF data[c] = <<>>
       THEN /\ cerr' = [cerr EXCEPT ![c] = "TypeError"]
            /\ cpc' = [cpc EXCEPT ![c] = "raised"]
            /\ UNCHANGED <<results, ret>>
       ELSE IF cop[c] = "get_tool_files"
       THEN /\ results' = [results EXCEPT ![c] = ToolFiles(data[c][1])]
            /\ ret' = [ret EXCEPT ![c] = <<ToolFiles(data[c][1])>>]
            /\ cpc' = [cpc EXCEPT ![c] = "done"]
            /\ UNCHANGED cerr
       ELSE /\ cpc' = [cpc EXCEPT ![c] = "package_files"]
            /\ UNCHANGED <<results, ret, cerr>>
    /\ UNCHANGED <<callers, name_prefix, now, nticks, cache, cop, data, ci, ncalls, last_set,
                   hit_at_call, nlist, list_failed, failed_before, store, runVars, resVars,
                   opened,
                   fresh_read>>

\* A classifier that takes every .tgz for a packaged archive.
IsPackageArchive_SuffixOnly(blob) == EndsWith(blob.relative_path, TgzExt)

\* lines 95-96: the blob is a packaged archive
IsPackageArchive(blob) ==
    /\ StartsWith(blob.relative_path, ReferenceBinaries)
    /\ EndsWith(blob.relative_path, TgzExt)

\* lines 100-104: the members of one archive
RECURSIVE MemberFiles(_, _)
MemberFiles(full_path, members) ==
    IF members = <<>> THEN <<>>
    ELSE <<[full_path |-> full_path \o Colon \o Head(members),
            relative_path |-> W_package \o Head(members)]>>
         \o MemberFiles(full_path, Tail(members))

\* lines 98-99 for one archive: get_blob_contents returns the bytes, or None
\* when the download fails (52-59); io.BytesIO(None) is an empty stream, and
\* tarfile.open raises ReadError on a stream that is no archive.
ExpandArchive(c, blob, downloaded) ==
    /\ opened' = [opened EXCEPT ![c] = Append(opened[c], blob.full_path)]
    /\ IF downloaded /\ IsTar(blob.full_path)
       THEN /\ results' = [results EXCEPT ![c] =
                              results[c] \o MemberFiles(blob.full_path, TarMembers(blob.full_path))]
            /\ ci' = [ci EXCEPT ![c] = ci[c] + 1]
            /\ UNCHANGED <<cpc, cerr>>
       ELSE /\ cerr' = [cerr EXCEPT ![c] = "ReadError"]
            /\ cpc' = [cpc EXCEPT ![c] = "raised"]
            /\ UNCHANGED <<results, ci>>

\* lines 94-104: one iteration of the loop of get_package_files
PackageFile(c) ==
    /\ cpc[c] = "package_files"
    /\ ci[c] <= Len(data[c][1])
    /\ LET blob == data[c][1][ci[c]]
       IN  IF IsPackageArchive(blob)
           THEN \E downloaded \in BOOLEAN : ExpandArchive(c, blob, downloaded)
           ELSE /\ ci' = [ci EXCEPT ![c] = ci[c] + 1]
                /\ UNCHANGED <<results, cpc, cerr, opened>>
    /\ UNCHANGED <<callers, name_prefix, now, nticks, cache, cop, data, ret, ncalls, last_set,
                   hit_at_call, nlist, list_failed, failed_before, store, runVars, resVars,
                   fresh_read>>

\* line 105: return results
PackageFilesReturn(c) ==
    /\ cpc[c] = "package_files"
    /\ ci[c] > Len(data[c][1])
    /\ ret' = [ret EXCEPT ![c] = <<results[c]>>]
    /\ cpc' = [cpc EXCEPT ![c] = "done"]
    /\ UNCHANGED <<callers, name_prefix, now, nticks, cache, cop, data, ci, results, cerr,
                   ncalls, last_set, hit_at_call, nlist, list_failed, failed_before,
                   store, runVars, resVars,
                   opened,
                   fresh_read>>

\* lines 107-108: get_intermediate_files returns [] and reads nothing
get_intermediate_files(c) ==
    /\ c \in callers
    /\ cpc[c] \in {"idle", "done", "raised"}
    /\ ncalls < MaxCalls
    /\ ncalls' = ncalls + 1
    /\ cop' = [cop EXCEPT ![c] = "get_intermediate_files"]
    /\ cpc' = [cpc EXCEPT ![c] = "done"]
    /\ data' = [data EXCEPT ![c] = <<>>]
    /\ ci' = [ci EXCEPT ![c] = 1]
    /\ results' = [results EXCEPT ![c] = <<>>]
    /\ ret' = [ret EXCEPT ![c] = << <<>> >>]
    /\ cerr' = [cerr EXCEPT ![c] = ""]
    /\ hit_at_call' = [hit_at_call EXCEPT ![c] = FALSE]
    /\ nlist' = [nlist EXCEPT ![c] = 0]
    /\ list_failed' = [list_failed EXCEPT ![c] = FALSE]
    /\ failed_before' = [failed_before EXCEPT ![c] = FALSE]
    /\ opened' = [opened EXCEPT ![c] = <<>>]
    /\ fresh_read' = [fresh_read EXCEPT ![c] = FALSE]
    /\ UNCHANGED <<callers, name_prefix, now, nticks, cache, last_set, store, runVars, resVars>>

\* Time passes.
Tick(d) ==
    /\ nticks < MaxTicks
    /\ nticks' = nticks + 1
    /\ now' = now + d
    /\ UNCHANGED <<callers, name_prefix, cache, cpc, cop, data, ci, results, ret, cerr,
                   ncalls, last_set, hit_at_call, nlist, list_failed, failed_before,
                   store, runVars, resVars,
                   opened,
                   fresh_read>>

\* The pipeline uploads an object to the container.
PutBlob(key) ==
    /\ Len(store) < MaxBlobs
    /\ \A i \in 1..Len(store) : store[i] # key
    /\ store' = Append(store, key)
    /\ UNCHANGED <<runVars, catVars, resVars>>

(***************************************************************************)
(* The coordinate resolver: the prefix of a coordinate and the inference   *)
(* of a coordinate from an object path.                                    *)
(***************************************************************************)
W_sub == <<"s", "u", "b">>

\* Coordinates a package identity string parses to: the library requires a
\* type and a name; the namespace and the version are optional.
Coordinates ==
    {PackageURL(t, ns, n, v) :
        t \in {W_npm, W_maven}, ns \in {<<>>, W_org, NamespaceWord},
        n \in {W_leftpad, W_lib, NamespaceWord}, v \in {<<>>, W_130, W_20}}

\* What follows the package's prefix in an object path: a file name, or a
\* nested path.
Rests ==
    {ToolMarker \o W_x \o SarifExt,
     W_sub \o Slash \o ToolMarker \o W_x \o SarifExt,
     ReferenceBinaries \o Slash \o W_pkg \o TgzExt}

\* The resolver is not in use.
ResolverOff ==
    /\ r_coord = PackageURL(<<>>, <<>>, <<>>, <<>>)
    /\ r_rest = <<>>
    /\ r_pc = "off"
    /\ r_inferred = <<>>
    /\ r_prefix = <<>>
    /\ r_err = ""

\* import_toolshed.py 68: the coordinate of the object stored under the
\* prefix of r_coord is inferred from its path.
InferFromPath ==
    /\ r_pc = "start"
    /\ r_inferred' = filename_to_package_url(HandlePrefix(r_coord) \o Slash \o r_rest)
    /\ r_pc' = "inferred"
    /\ UNCHANGED <<r_coord, r_rest, r_prefix, r_err, store, runVars, catVars>>

\* azure_blob_storage.py 62-71 and 25-35: the accessor of a scan of r_coord
\* is constructed; the storage settings are set or not.
NewAccessor ==
    /\ r_pc = "start"
    /\ LET prefix == get_toolshed_prefix(r_coord)
       IN  \E settings_set \in BOOLEAN :
              IF prefix = <<>> \/ ~settings_set
              THEN /\ r_pc' = "raised"
                   /\ r_err' = "ValueError"
                   /\ UNCHANGED r_prefix
              ELSE /\ r_pc' = "constructed"
                   /\ r_prefix' = <<prefix>>
                   /\ UNCHANGED r_err
    /\ UNCHANGED <<r_coord, r_rest, r_inferred, store, runVars, catVars>>

(***************************************************************************)
(* Specifications.                                                         *)
(***************************************************************************)
\* One run of the import command over any container and command line.
Init ==
    /\ InitRun
    /\ callers = {}
    /\ name_prefix = <<>>
    /\ CatalogFresh
    /\ ResolverOff

Next ==
    \/ CheckMode
    \/ initialize_toolshed
    \/ GetUser
    \/ ListBlobs
    \/ ForBlob
    \/ LoopEnd

Spec == Init /\ [][Next]_vars

\* One accessor used by one caller at a time, as the views use it.
InitCatalog ==
    /\ RunOff
    /\ store \in CatalogContainers
    /\ callers = {1}
    /\ name_prefix \in CatalogPrefixes
    /\ CatalogFresh
    /\ ResolverOff

NextCatalog ==
    \/ \E c \in Procs, op \in CallableOps : Call(c, op)
    \/ \E c \in Procs : CacheGet(c)
    \/ \E c \in Procs : ProviderList(c)
    \/ \E c \in Procs : CacheSet(c)
    \/ \E c \in Procs : Return(c)
    \/ \E c \in Procs : PackageFile(c)
    \/ \E c \in Procs : PackageFilesReturn(c)
    \/ \E d \in TickSteps : Tick(d)
    \/ \E key \in CatalogPool : PutBlob(key)

SpecCatalog == InitCatalog /\ [][NextCatalog]_vars

\* The classifier methods of one accessor over any container that also holds
\* a tool output with an archive suffix.
InitClassifier ==
    /\ RunOff
    /\ store \in ClassifierContainers
    /\ callers = {1}
    /\ name_prefix \in CatalogPrefixes
    /\ CatalogFresh
    /\ ResolverOff

NextClassifier ==
    \/ \E c \in Procs, op \in ClassifierOps : Call(c, op)
    \/ \E c \in Procs : get_intermediate_files(c)
    \/ \E c \in Procs : CacheGet(c)
    \/ \E c \in Procs : ProviderList(c)
    \/ \E c \in Procs : CacheSet(c)
    \/ \E c \in Procs : Return(c)
    \/ \E c \in Procs : PackageFile(c)
    \/ \E c \in Procs : PackageFilesReturn(c)

SpecClassifier == InitClassifier /\ [][NextClassifier]_vars

\* Two callers of get_blob_list on accessors of the same prefix, sharing the
\* cache; their statements interleave, each cache operation being atomic.
InitRace ==
    /\ RunOff
    /\ store \in RaceContainers
    /\ callers = Procs
    /\ name_prefix = get_toolshed_prefix(P_leftpad)
    /\ CatalogFresh
    /\ ResolverOff

NextRace ==
    \/ \E c \in Procs : Call(c, "get_blob_list")
    \/ \E c \in Procs : CacheGet(c)
    \/ \E c \in Procs : ProviderList(c)
    \/ \E c \in Procs : CacheSet(c)
    \/ \E c \in Procs : Return(c)
    \/ \E d \in TickSteps : Tick(d)
    \/ \E key \in RacePool : PutBlob(key)

SpecRace == InitRace /\ [][NextRace]_vars

\* The resolver applied to any coordinate and any rest.
InitResolver ==
    /\ RunOff
    /\ store = <<>>
    /\ callers = {}
    /\ name_prefix = <<>>
    /\ CatalogFresh
    /\ r_coord \in Coordinates
    /\ r_rest \in Rests
    /\ r_pc = "start"
    /\ r_inferred = <<>>
    /\ r_prefix = <<>>
    /\ r_err = ""

NextResolver ==
    \/ InferFromPath
    \/ NewAccessor

SpecResolver == InitResolver /\ [][NextResolver]_vars

(***************************************************************************)
(* Properties of the import run (checked under Spec).                      *)
(***************************************************************************)
FailedStatuses == {"download_failed", "json_failed", "importer_failed"}

\* The objects the downloaded bytes of which were asked for.
Fetched(e) == e.status # "skipped"

\* The objects handed to importer.import_sarif_file.
Handed(e) == e.status \in {"imported", "importer_failed"}

\* The command line sets a cap when --maximum is given an int.
MaximumSet == options.has_maximum /\ options.maximum # <<>>

\* C1: when the download, the JSON decoding or the importer call of an
\* object fails, no error leaves the run, the objects after it are processed
\* in listing order up to the cap, and the run completes.
C1_FailureIsolated ==
    (\E k \in 1..Len(trace) : trace[k].status \in FailedStatuses) =>
        /\ pc \in {"loop", "done"}
        /\ err = ""
        /\ \A k \in 1..Len(trace) : trace[k].i = k
        /\ pc = "loop" => idx = Len(trace) + 1
        /\ pc = "done" =>
              Len(trace) = IF MaximumSet /\ options.maximum[1] > 0
                                         /\ options.maximum[1] < Len(blobs)
                           THEN options.maximum[1]
                           ELSE Len(blobs)

\* C1 witness: a run that completed after an object failed and a later
\* object was imported.
C1_Witness ==
    /\ pc = "done"
    /\ Len(trace) = 2
    /\ trace[1].status = "json_failed"
    /\ trace[2].status = "imported"

\* C2 as stated: with --maximum m, at most m objects are touched and the
\* objects after the first m are left alone, for every m.
C2_AnyMaximum ==
    MaximumSet =>
        /\ \A k \in 1..Len(trace) : trace[k].i <= options.maximum[1]
        /\ (num_imported > 0 /\ num_imported > options.maximum[1]) => pc = "done"

\* C2 amended: with --maximum m and m > 0, the loop ends as soon as the
\* attempted count exceeds m, at most m objects are touched and the objects
\* after the first m are left alone.
C2_PositiveMaximum ==
    (MaximumSet /\ options.maximum[1] > 0) =>
        /\ \A k \in 1..Len(trace) : trace[k].i <= options.maximum[1]
        /\ Len(trace) <= options.maximum[1]
        /\ num_imported <= options.maximum[1] + 1
        /\ num_imported > options.maximum[1] => pc = "done" /\ err = ""

\* C2 witness: --maximum 1 over two .sarif objects ended after one attempt.
C2_Witness ==
    /\ pc = "done"
    /\ options.maximum = <<1>>
    /\ Len(blobs) = 2
    /\ \A i \in 1..2 : EndsWith(blobs[i], SarifExt)
    /\ Len(trace) = 1
    /\ Fetched(trace[1])

\* C3: without a cap the run goes through the whole listing: no error
\* leaves it, and at the end every .sarif object was handled once and every
\* other object was skipped without being fetched.
C3_NoCapRunsAll ==
    (~MaximumSet /\ listed = "ok") =>
        /\ err = ""
        /\ pc = "done" =>
              /\ Len(trace) = Len(blobs)
              /\ \A k \in 1..Len(trace) :
                    /\ trace[k].i = k
                    /\ Fetched(trace[k]) <=> EndsWith(blobs[k], SarifExt)

\* C4: in import-all mode the coordinate handed to the importer with an
\* object is the one inferred from that object's own path.
C4_CoordinatePerObject ==
    options.package = <<>> =>
        \A k \in 1..Len(trace) :
            Handed(trace[k]) => trace[k].coord = filename_to_package_url(blobs[trace[k].i])

\* C5: in import-all mode a .sarif object whose path fails the inference is
\* skipped: never fetched, never handed to the importer, never imported.
C5_InferenceMissSkipped ==
    options.package = <<>> =>
        \A k \in 1..Len(trace) :
            filename_to_package_url(blobs[trace[k].i]) = <<>> => ~Fetched(trace[k])

\* C6: when neither mode is selected, or a storage setting is absent, the
\* run ends with a fatal error before any listing, fetch or importer call.
C6_FailFast ==
    ((options.package = <<>> /\ ~options.import_all) \/ ~url_secret \/ ~container_secret) =>
        /\ listed = "no"
        /\ trace = <<>>
        /\ pc \in {"start", "init", "error"}
        /\ pc = "error" => err = "ValueError"

\* C6 witness: a mode is selected, the container setting is absent, and
\* the run has ended with the configuration error.
C6_Witness ==
    /\ options.import_all
    /\ url_secret /\ ~container_secret
    /\ pc = "error"
    /\ err = "ValueError"

\* C7: a listing that raises a transport error does not crash the run: no
\* error reaches the caller.
C7_ListingErrorAbsorbed ==
    listed = "raised" => pc # "error" /\ err = ""

(***************************************************************************)
(* Properties of the blob catalog (checked under SpecCatalog).             *)
(***************************************************************************)
\* The call of caller c is past its provider listing or cache read.
PastLookup(c) == cpc[c] \in {"set", "return", "package_files", "done", "raised"}

\* C8: a call made within an hour of the last cache.set makes no provider
\* listing and returns the sequence that was cached; a call made when there
\* is no entry or the hour has passed makes one provider listing.
C8_CacheHitAndExpiry ==
    \A c \in callers :
        /\ hit_at_call[c] => nlist[c] = 0
        /\ (/\ hit_at_call[c]
            /\ cpc[c] = "done"
            /\ cop[c] = "get_blob_list"
            /\ now < last_set[name_prefix][1].at + OneHour)
              => ret[c] = <<last_set[name_prefix][1].value>>
        /\ (~hit_at_call[c] /\ PastLookup(c)) => nlist[c] = 1

\* C8 witness: a call returned the cached sequence within the hour, after
\* the container had changed.
C8_Witness ==
    /\ cpc[1] = "done"
    /\ cop[1] = "get_blob_list"
    /\ hit_at_call[1]
    /\ now > 0
    /\ now < last_set[name_prefix][1].at + OneHour
    /\ ret[1] = <<last_set[name_prefix][1].value>>
    /\ ret[1][1] # MapDescriptor(list_blobs(name_prefix))

\* C9: when the provider listing fails, the call returns the empty sequence,
\* raises nothing and leaves no live cache entry for the prefix, so the
\* caller's next call queries the provider again.
C9_ListingFailureNotCached ==
    \A c \in callers :
        /\ (list_failed[c] /\ PastLookup(c)) =>
              /\ data[c] = << <<>> >>
              /\ cerr[c] = ""
              /\ cache[name_prefix] = <<>> \/ cache[name_prefix][1].expires <= now
              /\ (cpc[c] = "done" /\ cop[c] = "get_blob_list") => ret[c] = << <<>> >>
        /\ (failed_before[c] /\ PastLookup(c)) => nlist[c] = 1

\* C9 witness: a call ended with the empty sequence after its listing
\* failed although the container holds objects under the prefix, and the
\* call before it had failed as well.
C9_Witness ==
    /\ cpc[1] = "done"
    /\ cop[1] = "get_blob_list"
    /\ list_failed[1]
    /\ failed_before[1]
    /\ ret[1] = << <<>> >>
    /\ list_blobs(name_prefix) # <<>>

\* C10: a corrupt or unavailable archive raises nothing to the caller of
\* get_package_files, which still returns the members of the valid archives.
C10_ArchiveFailurePerObject ==
    \A c \in callers :
        cop[c] = "get_package_files" =>
            /\ cerr[c] # "ReadError"
            /\ cpc[c] = "done" =>
                  \A i \in 1..Len(data[c][1]) :
                      IsTar(data[c][1][i].full_path) =>
                          \E j \in 1..Len(ret[c][1]) :
                              StartsWith(ret[c][1][j].full_path,
                                         data[c][1][i].full_path \o Colon)

(***************************************************************************)
(* Properties of the coordinate resolver (checked under SpecResolver).     *)
(***************************************************************************)
\* C11: for a coordinate with a namespace, the coordinate inferred from
\* prefix + "/" + rest has the same type, namespace, name and version.
C11_NamespacedRoundTrip ==
    (r_pc = "inferred" /\ r_coord.namespace # <<>> /\ r_coord.version # <<>>) =>
        r_inferred = <<r_coord>>

\* C12: for a coordinate without namespace, whatever the rest is, the
\* coordinate inferred from type/name/version/rest has no namespace and the
\* type, name and version of the path's first three segments.
C12_NoNamespaceConsumed ==
    (r_pc = "inferred" /\ r_coord.namespace = <<>> /\ r_coord.version # <<>>) =>
        r_inferred = <<r_coord>>

\* C13: the prefix of a coordinate whose type, name or version is absent
\* is refused, so no accessor lists with it; the prefix of a complete
\* coordinate is type/namespace/name/version or type/name/version.
C13_IncompleteCoordinateRejected ==
    /\ (r_coord.type = <<>> \/ r_coord.name = <<>> \/ r_coord.version = <<>>) =>
           r_pc # "constructed"
    /\ (r_pc = "constructed" /\ r_coord.namespace # <<>>) =>
           r_prefix = <<r_coord.type \o Slash \o r_coord.namespace \o Slash
                            \o r_coord.name \o Slash \o r_coord.version>>
    /\ (r_pc = "constructed" /\ r_coord.namespace = <<>>) =>
           r_prefix = <<r_coord.type \o Slash \o r_coord.name \o Slash \o r_coord.version>>

(***************************************************************************)
(* Further properties of the import run (checked under Spec).              *)
(***************************************************************************)
\* C14: when the iteration ends, the count of attempted objects the run
\* keeps is the number of objects processed, each with one status, so that
\* attempted = imported + skipped + failed.
C14_OutcomeAccounting ==
    pc = "done" =>
        /\ \A j, k \in 1..Len(trace) : trace[j].i = trace[k].i => j = k
        /\ num_imported = Len(trace)

\* C15: a run given both a package and --import-all is rejected before any
\* listing, fetch or importer call, like a run given neither.
C15_ModesExclusive ==
    (options.package # <<>> /\ options.import_all) =>
        /\ listed = "no"
        /\ trace = <<>>
        /\ pc \notin {"loop", "done"}

\* C20: in a run for one package, the key of every object handed to the
\* importer begins with the package's prefix followed by a slash.
C20_SinglePackageScope ==
    (options.package # <<>> /\ options.package[1].valid) =>
        \A k \in 1..Len(trace) :
            Handed(trace[k]) =>
                StartsWith(blobs[trace[k].i],
                           HandlePrefix(options.package[1].purl) \o Slash)

(***************************************************************************)
(* Further properties of the blob catalog (checked under SpecCatalog).     *)
(***************************************************************************)
\* C17: for every descriptor of a listing, full_path is the prefix, a
\* slash and relative_path.
C17_DescriptorShape ==
    \A c \in callers :
        data[c] # <<>> =>
            \A i \in 1..Len(data[c][1]) :
                data[c][1][i].full_path =
                    name_prefix \o Slash \o data[c][1][i].relative_path

\* C19: get_blob_list returns a sequence and never None, whenever the
\* cache entry expires; no caller of it is handed None to iterate.
C19_NeverNone ==
    \A c \in callers :
        /\ (cpc[c] = "done" /\ cop[c] = "get_blob_list") => ret[c] # <<>>
        /\ cerr[c] # "TypeError"

\* The full paths of a sequence of descriptors.
FullPaths(list) == {list[i].full_path : i \in 1..Len(list)}

\* The objects the current call of a caller asked the bytes of.
Opened(c) == {opened[c][i] : i \in 1..Len(opened[c])}

\* The descriptors of a listing with a given full path.
Entries(list, path) == {list[i] : i \in {j \in 1..Len(list) : list[j].full_path = path}}

\* C16: the classifier subsets are disjoint for every listing: no entry is
\* both a tool file and opened by get_package_files; an entry under
\* reference-binaries ending in .tgz is never a tool file; an entry starting
\* with tool- is never opened; get_tool_files opens nothing; and
\* get_intermediate_files is always empty and lists nothing.
C16_ClassifierDisjoint ==
    \A c \in callers :
        /\ (cop[c] = "get_package_files" /\ data[c] # <<>>) =>
               /\ FullPaths(ToolFiles(data[c][1])) \cap Opened(c) = {}
               /\ \A i \in 1..Len(opened[c]) :
                      \A b \in Entries(data[c][1], opened[c][i]) :
                          ~StartsWith(b.relative_path, ToolMarker)
        /\ (cop[c] = "get_tool_files" /\ cpc[c] = "done") =>
               /\ opened[c] = <<>>
               /\ \A p \in FullPaths(ret[c][1]) :
                      \A b \in Entries(data[c][1], p) :
                          ~(StartsWith(b.relative_path, ReferenceBinaries)
                              /\ EndsWith(b.relative_path, TgzExt))
        /\ cop[c] = "get_intermediate_files" =>
               /\ cpc[c] = "done"
               /\ ret[c] = << <<>> >>
               /\ nlist[c] = 0
               /\ opened[c] = <<>>

\* get_package_files has finished after opening an archive of a listing that
\* also holds a tool file.
C16_Witness ==
    /\ cop[1] = "get_package_files"
    /\ cpc[1] = "done"
    /\ opened[1] # <<>>
    /\ ToolFiles(data[1][1]) # <<>>

\* The complete provider listings of the prefix the container has had: the
\* container only grows, so each is the listing of a prefix of the store.
CompleteListings ==
    {MapDescriptor(SelectSeq(SubSeq(store, 1, k), LAMBDA n : StartsWith(n, name_prefix))) :
        k \in 0..Len(store)}

\* C18: when two callers race on one prefix, each caller that missed and
\* listed returns its own complete listing; the cache entry holds the last
\* writer's listing, which is one complete listing and never a partial or
\* mixed sequence; a caller that reads the cache, with no write after its
\* read, returns that sequence; and while no entry can have outlived the hour
\* every call served from the cache returns a complete listing.
C18_LastWriterWins ==
    /\ \A c \in callers :
           (nlist[c] = 1 /\ ~list_failed[c]) =>
               /\ data[c] # <<>>
               /\ data[c][1] \in CompleteListings
               /\ cpc[c] = "done" => ret[c] = data[c]
    /\ cache[name_prefix] # <<>> =>
           /\ last_set[name_prefix] # <<>>
           /\ cache[name_prefix][1].value = last_set[name_prefix][1].value
           /\ cache[name_prefix][1].value \in CompleteListings
    /\ \A c \in callers :
           fresh_read[c] =>
               /\ data[c] = <<last_set[name_prefix][1].value>>
               /\ cpc[c] = "done" => ret[c] = data[c]
    /\ \A c \in callers :
           (nlist[c] = 0 /\ cpc[c] \in {"return", "done"} /\ now < OneHour) =>
               /\ data[c] # <<>>
               /\ data[c][1] \in CompleteListings

\* Both callers missed before either wrote, listed different contents and
\* returned them; the cache holds the listing of one of them.
C18_Witness ==
    /\ ncalls = 2
    /\ nticks = 0
    /\ \A c \in Procs : cpc[c] = "done" /\ nlist[c] = 1 /\ ~list_failed[c]
    /\ ret[1] # ret[2]
    /\ cache[name_prefix] # <<>>
    /\ cache[name_prefix][1].value \in {ret[1][1], ret[2][1]}

====
